---------------------------- MODULE Spec2Model ----------------------------
(***************************************************************************)
(* Model of the DuoPulse v4 pattern generator (scripts/pattern-viz-debug). *)
(*                                                                         *)
(* Representation.                                                         *)
(*   - A hit mask or eligibility mask (a Python int used as a bit set) is  *)
(*     the set of its set bit positions: bit i of the int is set iff       *)
(*     i \in mask.  &, |, & ~ and popcount are \cap, \cup, \ and           *)
(*     Cardinality.                                                        *)
(*   - Continuous parameters (energy, build, punch, balance, field_x) are  *)
(*     integers in thousandths; weights are thousandths as well.           *)
(*   - phrase_progress is an integer in units of 1/840, so that bar/bars   *)
(*     is exact for every phrase of up to 8 bars and the thresholds 0.60   *)
(*     (504) and 0.875 (735) are exact.                                    *)
(*   - Velocities are integers in millionths.                              *)
(*   - The 32-bit hash is computed exactly, on pairs <<hi, lo>> of 16-bit  *)
(*     halves; log and Gumbel scores are fixed point, in thousandths.      *)
(*     Two steps whose float scores differ by less than about 0.01 may be  *)
(*     ranked the other way round than by the float code; how many steps   *)
(*     are selected, and which steps may be selected, does not depend on   *)
(*     the ranking.                                                        *)
(*   - The hit budgets are computed in exact rational arithmetic.  The     *)
(*     float code agrees with it on the inputs drawn below; it differs     *)
(*     at energy 0.35 with 24 steps, where the float quotient              *)
(*     (0.35 - 0.20) / 0.30 falls just below 0.5, and that input is not    *)
(*     drawn.  The float rounding inside generate_euclidean is a boolean   *)
(*     input, fp_low, covering both outcomes.                              *)
(*   - archetypes.py is not part of the sources at hand: the step weights  *)
(*     of blend_archetypes follow the description of the archetype grid    *)
(*     (weights in [0, 1], TECHNO anchors strongest on the quarter notes). *)
(***************************************************************************)
EXTENDS Integers, Sequences, FiniteSets, TLC

VARIABLES
    op,          \* which entry point the run exercises
    pc,          \* position inside that entry point
    g_in,        \* select_hits_gumbel: the arguments of the call
    scores,      \* select_hits_gumbel: the Gumbel scores
    selected_mask,   \* select_hits_gumbel: steps selected so far
    selected_count,  \* select_hits_gumbel: number of selections made
    last_step,   \* select_hits_gumbel: the step the last iteration selected
    cur_spacing, \* select_hits_gumbel: spacing of the pass in progress
    e_in,        \* single-call entry points: the arguments of the call
    e_out,       \* single-call entry points: the value returned
    p_in,        \* pipeline: the arguments of generate_pattern / generate_phrase
    output,      \* pipeline: the PatternOutput of the last generate_pattern
    budget,      \* pipeline: the BarBudget computed inside generate_pattern
    patterns,    \* generate_phrase: the list of PatternOutput built so far
    bar          \* generate_phrase: loop counter

vars == <<op, pc, g_in, scores, selected_mask, selected_count, last_step,
          cur_spacing, e_in, e_out, p_in, output, budget, patterns, bar>>

-----------------------------------------------------------------------------
(* Integer helpers *)

Min(a, b) == IF a < b THEN a ELSE b

Max(a, b) == IF a > b THEN a ELSE b

Abs(a) == IF a < 0 THEN -a ELSE a

\* The element of a one-element set.  Only({ e : x \in {v} }) is e with x
\* standing for the value of v, which is evaluated once, as a local
\* variable of the Python code holds a value.  A chain of assignments
\* reads from its last line upwards.
Only(S) == CHOOSE r \in S : TRUE

\* Python int(x) of the rational n/d (d > 0): truncation toward zero.
TruncDiv(n, d) == IF n >= 0 THEN n \div d ELSE -((-n) \div d)

\* 1 << n
Pow2(n) == 2 ^ n

\* a ^ b on 16-bit halves
RECURSIVE Xor16(_, _)
Xor16(a, b) ==
    IF a = 0 THEN b
    ELSE IF b = 0 THEN a
    ELSE (((a % 2) + (b % 2)) % 2) + 2 * Xor16(a \div 2, b \div 2)

\* a ^ b on non-negative ints below 2^31
Xor(a, b) ==
    Xor16(a \div 65536, b \div 65536) * 65536 + Xor16(a % 65536, b % 65536)

-----------------------------------------------------------------------------
(* 32-bit words as <<hi, lo>>, each half in 0..65535 *)

Word(x) == <<x \div 65536, x % 65536>>

WXor(a, b) == <<Xor16(a[1], b[1]), Xor16(a[2], b[2])>>

\* (x * y) for 16-bit x, y as <<carry into the high half, low half>>
Mul16(x, y) ==
    Only({ Only({ Only({ <<(s \div 65536) + (p1 \div 256), s % 65536>>
        : s \in {p0 + (p1 % 256) * 256} })
        : p1 \in {(x \div 256) * y} })
        : p0 \in {(x % 256) * y} })

\* (a * b) & 0xFFFFFFFF
WMul(a, b) ==
    Only({ <<(ll[1] + Mul16(a[1], b[2])[2] + Mul16(a[2], b[1])[2]) % 65536,
          ll[2]>>
        : ll \in {Mul16(a[2], b[2])} })

\* h >> 16
WShr16(a) == <<0, a[1]>>

\* h >> 13
WShr13(a) == <<a[1] \div 8192, (a[1] % 8192) * 8 + (a[2] \div 8192)>>

-----------------------------------------------------------------------------
(* gumbel_sampler.py: hashing *)

\* MIN_SCORE: below every real score (scores are in thousandths)
MIN_SCORE == -1000000000

\* _hash_step(seed, step): the 32-bit mix, as a word.  The multipliers are
\* 0x9E3779B9 = <<40503, 31161>>, 0x85EBCA6B = <<34283, 51819>> and
\* 0xC2B2AE35 = <<49842, 44597>>.
hash_step(seed, step) ==
    Only({ Only({ Only({ Only({ Only({ WXor(h4, WShr16(h4))
        : h4 \in {WMul(h3, <<49842, 44597>>)} })
        : h3 \in {WXor(h2, WShr13(h2))} })
        : h2 \in {WMul(h1, <<34283, 51819>>)} })
        : h1 \in {WXor(h0, WShr16(h0))} })
        : h0 \in {WXor(Word(seed), WMul(Word(step), <<40503, 31161>>))} })

\* _hash_to_float(seed, step) in units of 2^-24: the top 24 bits of the
\* hash, clamped to [EPSILON, 1 - EPSILON] (1e-6 is 16.78 units).
hash_to_float(seed, step) ==
    Only({ Max(17, Min(16777199, h[1] * 256 + (h[2] \div 256)))
        : h \in {hash_step(seed, step)} })


-----------------------------------------------------------------------------
(* Fixed-point logarithm (math.log) *)

Msb(n) == Cardinality({k \in 1 .. 30 : 2 ^ k <= n})

\* log2(n) for 1 <= n < 2^25, in units of 1/1024: the exponent plus a
\* quadratic interpolation of the mantissa (error below 0.01).
Log2Q10(n) ==
    Only({ Only({ 1024 * m + f + ((f * (1024 - f) * 352) \div 1048576)
        : f \in {IF m >= 10 THEN (n - Pow2(m)) \div Pow2(m - 10) ELSE (n - Pow2(m)) * Pow2(10 - m)} })
        : m \in {Msb(n)} })

\* math.log(n) in thousandths, for an integer n >= 1
LnMilli(n) == (Log2Q10(n) * 6769) \div 10000

-----------------------------------------------------------------------------
(* gumbel_sampler.py: scores *)

\* _uniform_to_gumbel(uniform): -log(-log(u)) in thousandths, u in units
\* of 2^-24.  -log2(u) is 24 - log2(u24), kept at least one unit (1/1024),
\* so the value saturates at 7.298 for u above 0.9993.
uniform_to_gumbel(uniform) ==
    LET u  == Max(17, Min(16777199, uniform))
        nl == Max(1, 24576 - Log2Q10(u))
    IN  7298 - LnMilli(nl)

\* weights[step] if step < len(weights) else 0.0   (weights in thousandths)
WeightAt(weights, step) ==
    IF step < Len(weights) THEN weights[step + 1] ELSE 0

\* one entry of _compute_gumbel_scores: EPSILON is 1e-6, so on the grid of
\* thousandths weight < EPSILON is weight = 0.
StepScore(weights, seed, step) ==
    Only({ IF weight < 1 THEN MIN_SCORE
        ELSE (LnMilli(weight) - 6908)
             + uniform_to_gumbel(hash_to_float(seed, step))
        : weight \in {WeightAt(weights, step)} })

\* _compute_gumbel_scores: the list scores[0..pattern_length-1], as a
\* sequence (scores[step + 1] is the score of step).
compute_gumbel_scores(weights, seed, pattern_length) ==
    SubSeq([i \in 1 .. 32 |-> StepScore(weights, seed, i - 1)],
           1, Max(0, Min(32, pattern_length)))

\* _check_spacing_valid measuring only the direct distance
check_spacing_valid_nowrap(sel, candidate_step, min_spacing, pattern_length) ==
    IF min_spacing <= 0 \/ sel = {} THEN TRUE
    ELSE \A step \in sel \cap (0 .. pattern_length - 1) :
            Abs(candidate_step - step) >= min_spacing

\* _check_spacing_valid
check_spacing_valid(sel, candidate_step, min_spacing, pattern_length) ==
    IF min_spacing <= 0 \/ sel = {} THEN TRUE
    ELSE \A step \in sel \cap (0 .. pattern_length - 1) :
            LET dist == Abs(candidate_step - step)
            IN  Min(dist, pattern_length - dist) >= min_spacing


\* step_qualifies without the `already selected` check
step_qualifies_reselect(step, eligibility_mask, sel, pattern_length, min_spacing) ==
    /\ step \in eligibility_mask
    /\ check_spacing_valid(sel, step, min_spacing, pattern_length)

\* _find_best_step, the three `continue` checks of one iteration:
\* eligible, not already selected, spacing satisfied
step_qualifies(step, eligibility_mask, sel, pattern_length, min_spacing) ==
    /\ step \in eligibility_mask
    /\ step \notin sel
    /\ check_spacing_valid(sel, step, min_spacing, pattern_length)

\* _find_best_step taking any qualifying step, whatever its score
find_best_step_any_score(sc, eligibility_mask, sel, pattern_length, min_spacing) ==
    LET candidates ==
            {step \in 0 .. Min(pattern_length, 32) - 1 :
                step_qualifies(step, eligibility_mask, sel, pattern_length,
                               min_spacing)}
    IN  IF candidates = {} THEN -1
        ELSE CHOOSE step \in candidates :
                \A other \in candidates :
                    \/ sc[other + 1] < sc[step + 1]
                    \/ sc[other + 1] = sc[step + 1] /\ other >= step

\* _find_best_step: the first step with the highest score among the steps
\* that qualify and score above MIN_SCORE (`>` keeps the earlier step on a
\* tie); -1 when there is none
find_best_step(sc, eligibility_mask, sel, pattern_length, min_spacing) ==
    LET candidates ==
            {step \in 0 .. Min(pattern_length, 32) - 1 :
                /\ step_qualifies(step, eligibility_mask, sel, pattern_length,
                                  min_spacing)
                /\ sc[step + 1] > MIN_SCORE}
    IN  IF candidates = {} THEN -1
        ELSE CHOOSE step \in candidates :
                \A other \in candidates :
                    \/ sc[other + 1] < sc[step + 1]
                    \/ sc[other + 1] = sc[step + 1] /\ other >= step

\* get_min_spacing_for_zone
get_min_spacing_for_zone(zone) ==
    CASE zone = "MINIMAL" -> 4
      [] zone = "GROOVE"  -> 2
      [] zone = "BUILD"   -> 1
      [] OTHER            -> 0

\* One `while selected_count < target_count` loop of select_hits_gumbel,
\* as <<selected_mask, selected_count>> at the loop's exit.
RECURSIVE select_loop(_, _, _, _, _, _, _)
select_loop(sc, eligibility_mask, sel, count, target_count, pattern_length, spacing) ==
    IF count >= target_count THEN <<sel, count>>
    ELSE Only({ IF best_step < 0 THEN <<sel, count>>
                  ELSE Only({ select_loop(sc, eligibility_mask, grown,
                                            count + 1, target_count,
                                            pattern_length, spacing)
        : grown \in {sel \cup {best_step}} })
        : best_step \in {find_best_step(sc, eligibility_mask, sel, pattern_length, spacing)} })

\* select_hits_gumbel: the mask returned
select_hits_gumbel(weights, eligibility_mask, target_count, seed, pattern_length, min_spacing) ==
    LET pl == Min(pattern_length, 32)
        tc == Min(target_count, 16)
        pass1(sc) ==
            select_loop(sc, eligibility_mask, {}, 0, tc, pl, min_spacing)
        pass2(sc, p1) ==
            IF p1[2] < tc /\ min_spacing > 0
            THEN select_loop(sc, eligibility_mask, p1[1], p1[2], tc, pl,
                             min_spacing \div 2)
            ELSE p1
        pass3(sc, p2) ==
            IF p2[2] < tc
            THEN select_loop(sc, eligibility_mask, p2[1], p2[2], tc, pl, 0)
            ELSE p2
    IN  IF target_count <= 0 \/ eligibility_mask = {} THEN {}
        ELSE Only({ Only({ Only({ pass3(sc, p2)[1]
        : p2 \in {pass2(sc, p1)} })
        : p1 \in {pass1(sc)} })
        : sc \in {compute_gumbel_scores(weights, seed, pl)} })

\* count_bits
count_bits(mask) == Cardinality(mask)


-----------------------------------------------------------------------------
(* euclidean.py *)

\* generate_euclidean, the bucket-fill loop from step i on, as
\* <<pattern, placed_hits>>.  The accumulator is kept exactly, as the
\* numerator acc of acc/steps.  The source adds the double hits/steps, whose
\* rounded sum can fall just short of 1.0 where the exact sum is 1.0;
\* fp_low tells whether it does, so both outcomes of `accumulator >= 1.0`
\* at an exact 1.0 are covered.
RECURSIVE bucket_fill(_, _, _, _, _, _, _)
bucket_fill(i, pattern, placed_hits, acc, hits, steps, fp_low) ==
    IF i >= steps THEN <<pattern, placed_hits>>
    ELSE LET a == acc + hits
             reached == a > steps \/ (a = steps /\ ~fp_low)
         IN  IF reached /\ placed_hits < hits
             THEN bucket_fill(i + 1, pattern \cup {i}, placed_hits + 1,
                              a - steps, hits, steps, fp_low)
             ELSE bucket_fill(i + 1, pattern, placed_hits, a, hits, steps,
                              fp_low)

\* backfill that adds nothing
backfill_none(i, pattern, placed_hits, hits) == pattern

\* generate_euclidean, the second loop: from step i down, fill empty slots
\* until placed_hits reaches hits
RECURSIVE backfill(_, _, _, _)
backfill(i, pattern, placed_hits, hits) ==
    IF i < 0 \/ placed_hits >= hits THEN pattern
    ELSE IF i \notin pattern
         THEN backfill(i - 1, pattern \cup {i}, placed_hits + 1, hits)
         ELSE backfill(i - 1, pattern, placed_hits, hits)

\* generate_euclidean(hits, steps)
generate_euclidean(hits_arg, steps_arg, fp_low) ==
    LET steps == Max(1, Min(32, steps_arg))
        hits  == Min(Max(0, hits_arg), steps)
    IN  IF hits = 0 THEN {}
        ELSE IF hits >= steps THEN 0 .. steps - 1
        ELSE Only({ backfill(steps - 1, fill[1], fill[2], hits)
        : fill \in {bucket_fill(0, {}, 0, 0, hits, steps, fp_low)} })

\* rotate_pattern with the bits shifted out on the right dropped
rotate_pattern_nowrap(pattern, offset_arg, steps_arg) ==
    LET steps  == Max(1, Min(32, steps_arg))
        offset == offset_arg % steps
    IN  {b - offset : b \in {x \in pattern : x >= offset}} \cap (0 .. steps - 1)

\* rotate_pattern(pattern, offset, steps):
\* ((pattern >> offset) | (pattern << (steps - offset))) & mask
rotate_pattern(pattern, offset_arg, steps_arg) ==
    LET steps  == Max(1, Min(32, steps_arg))
        offset == offset_arg % steps
        shr    == {b - offset : b \in {x \in pattern : x >= offset}}
        shl    == {b + (steps - offset) : b \in pattern}
    IN  (shr \cup shl) \cap (0 .. steps - 1)

-----------------------------------------------------------------------------
(* types.py: step masks for metric positions *)

DOWNBEAT_MASK == {0, 16}                                  \* 0x00010001

QUARTER_NOTE_MASK == {0, 8, 16, 24}                       \* 0x01010101

BACKBEAT_MASK == {8, 24}                                  \* 0x01000100

EIGHTH_NOTE_MASK == {s \in 0 .. 31 : s % 2 = 0}           \* 0x55555555

SIXTEENTH_NOTE_MASK == 0 .. 31                            \* 0xFFFFFFFF

OFFBEAT_MASK == {s \in 0 .. 31 : s % 2 = 1}               \* 0xAAAAAAAA

SYNCOPATION_MASK == {s \in 0 .. 31 : s % 4 = 1}           \* 0x22222222

-----------------------------------------------------------------------------
(* hit_budget.py  (energy, balance, flavor in thousandths) *)

\* a clamp that forgets the lower bound
Clamp01_upper_only(x) == Min(1000, x)

\* max(0.0, min(1.0, x)) in thousandths
Clamp01(x) == Max(0, Min(1000, x))

\* compute_energy_zone with `<=` in place of `<` at the thresholds
compute_energy_zone_inclusive(energy_arg) ==
    LET energy == Max(0, Min(1000, energy_arg))
    IN  IF energy <= 200 THEN "MINIMAL"
        ELSE IF energy <= 500 THEN "GROOVE"
        ELSE IF energy <= 750 THEN "BUILD"
        ELSE "PEAK"

\* compute_energy_zone
compute_energy_zone(energy_arg) ==
    LET energy == Clamp01(energy_arg)
    IN  IF energy < 200 THEN "MINIMAL"
        ELSE IF energy < 500 THEN "GROOVE"
        ELSE IF energy < 750 THEN "BUILD"
        ELSE "PEAK"

\* compute_anchor_budget.  zone_progress is the rational zn/zd, and
\* int((typical_hits - min_hits) * zone_progress + 0.5) truncates toward 0.
compute_anchor_budget(energy_arg, zone, pattern_length) ==
    LET energy == Clamp01(energy_arg)
        clamped_length == Min(pattern_length, 32)
        max_hits == clamped_length \div 3
        min_hits == CASE zone = "MINIMAL" -> 1
                      [] zone = "GROOVE"  -> 3
                      [] zone = "BUILD"   -> 4
                      [] OTHER            -> 6
        typical_hits == CASE zone = "MINIMAL" -> Max(1, clamped_length \div 16)
                          [] zone = "GROOVE"  -> clamped_length \div 6
                          [] zone = "BUILD"   -> clamped_length \div 4
                          [] OTHER            -> clamped_length \div 3
        zd == CASE zone = "MINIMAL" -> 200
                [] zone = "GROOVE"  -> 300
                [] OTHER            -> 250
        zraw == CASE zone = "MINIMAL" -> energy
                  [] zone = "GROOVE"  -> energy - 200
                  [] zone = "BUILD"   -> energy - 500
                  [] OTHER            -> energy - 750
        zn == Max(0, Min(zd, zraw))
        hits == min_hits
                + TruncDiv(2 * (typical_hits - min_hits) * zn + zd, 2 * zd)
    IN  Max(1, Min(hits, max_hits))

\* compute_shimmer_budget without the zone-aware cap of the ratio
compute_shimmer_budget_uncapped(energy, balance_arg, zone, pattern_length) ==
    LET balance == Clamp01(balance_arg)
        anchor_budget == compute_anchor_budget(energy, zone, pattern_length)
        hits == TruncDiv(2 * anchor_budget * 3 * balance + 2000, 4000)
        clamped_length == Min(pattern_length, 32)
    IN  IF zone = "MINIMAL"
        THEN Max(0, Min(hits, clamped_length \div 8))
        ELSE Max(1, Min(hits, clamped_length \div 4))

\* compute_shimmer_budget.  shimmer_ratio = balance * 1.5 is rn/2000.
compute_shimmer_budget(energy, balance_arg, zone, pattern_length) ==
    LET balance == Clamp01(balance_arg)
        anchor_budget == compute_anchor_budget(energy, zone, pattern_length)
        rn == IF zone \in {"GROOVE", "MINIMAL"}
              THEN Min(3 * balance, 2000) ELSE 3 * balance
        hits == TruncDiv(2 * anchor_budget * rn + 2000, 4000)
        clamped_length == Min(pattern_length, 32)
    IN  IF zone = "MINIMAL"
        THEN Max(0, Min(hits, clamped_length \div 8))
        ELSE Max(1, Min(hits, clamped_length \div 4))

\* compute_aux_budget with the default aux_density = 1.0
compute_aux_budget(energy, zone, pattern_length) ==
    LET clamped_length == Min(pattern_length, 32)
        base_budget == CASE zone = "MINIMAL" -> 0
                         [] zone = "GROOVE"  -> clamped_length \div 8
                         [] zone = "BUILD"   -> clamped_length \div 4
                         [] OTHER            -> clamped_length \div 2
    IN  Max(0, Min(base_budget, clamped_length))

\* a length mask that is always the whole 32-bit word
LengthMask_whole_word(pattern_length) == 0 .. 31

\* the length mask of the eligibility functions
LengthMask(pattern_length) ==
    LET clamped_length == Min(pattern_length, 32)
    IN  IF clamped_length >= 32 THEN 0 .. 31 ELSE 0 .. clamped_length - 1

\* compute_anchor_eligibility
compute_anchor_eligibility(energy_arg, flavor_arg, zone, pattern_length) ==
    LET energy == Clamp01(energy_arg)
        flavor == Clamp01(flavor_arg)
        base == CASE zone = "MINIMAL" -> DOWNBEAT_MASK \cup QUARTER_NOTE_MASK
                  [] zone = "GROOVE"  ->
                        QUARTER_NOTE_MASK
                        \cup (IF energy > 350 THEN EIGHTH_NOTE_MASK ELSE {})
                  [] zone = "BUILD"   ->
                        EIGHTH_NOTE_MASK
                        \cup (IF energy > 600 THEN SIXTEENTH_NOTE_MASK ELSE {})
                  [] OTHER            -> SIXTEENTH_NOTE_MASK
        eligibility == base
                       \cup (IF flavor > 300 THEN OFFBEAT_MASK ELSE {})
                       \cup (IF flavor > 600 THEN SYNCOPATION_MASK ELSE {})
    IN  eligibility \cap LengthMask(pattern_length)

\* compute_shimmer_eligibility
compute_shimmer_eligibility(energy_arg, flavor_arg, zone, pattern_length) ==
    LET energy == Clamp01(energy_arg)
        flavor == Clamp01(flavor_arg)
        base == CASE zone = "MINIMAL" -> BACKBEAT_MASK
                  [] zone = "GROOVE"  ->
                        BACKBEAT_MASK
                        \cup (IF energy > 300 THEN OFFBEAT_MASK ELSE {})
                  [] zone = "BUILD"   -> EIGHTH_NOTE_MASK
                  [] OTHER            -> SIXTEENTH_NOTE_MASK
        eligibility == base
                       \cup (IF flavor > 400 THEN SYNCOPATION_MASK ELSE {})
    IN  eligibility \cap LengthMask(pattern_length)

\* compute_aux_eligibility
compute_aux_eligibility(energy_arg, flavor, zone, pattern_length) ==
    LET energy == Clamp01(energy_arg)
        eligibility == CASE zone = "MINIMAL" -> {}
                         [] zone = "GROOVE"  -> EIGHTH_NOTE_MASK
                         [] zone = "BUILD"   ->
                               EIGHTH_NOTE_MASK
                               \cup (IF energy > 600 THEN SIXTEENTH_NOTE_MASK
                                     ELSE {})
                         [] OTHER            -> SIXTEENTH_NOTE_MASK
    IN  eligibility \cap LengthMask(pattern_length)

\* int(hits * build_multiplier + 0.5), the multiplier being mult[1]/mult[2]
ScaleBudget(hits, mult) ==
    TruncDiv(2 * hits * mult[1] + mult[2], 2 * mult[2])

\* compute_bar_budget: the BarBudget
compute_bar_budget(energy, balance, zone, pattern_length, build_multiplier, flavor) ==
    LET clamped_length == Min(pattern_length, 32)
        scaled == build_multiplier[1] > build_multiplier[2]
        a0 == compute_anchor_budget(energy, zone, clamped_length)
        s0 == compute_shimmer_budget(energy, balance, zone, clamped_length)
        x0 == compute_aux_budget(energy, zone, clamped_length)
        a1 == IF scaled THEN ScaleBudget(a0, build_multiplier) ELSE a0
        s1 == IF scaled THEN ScaleBudget(s0, build_multiplier) ELSE s0
        x1 == IF scaled THEN ScaleBudget(x0, build_multiplier) ELSE x0
        max_hits == (clamped_length * 2) \div 3
    IN  [ anchor_hits |-> Min(a1, max_hits),
          shimmer_hits |-> Min(s1, max_hits),
          aux_hits |-> Min(x1, clamped_length),
          anchor_eligibility |->
              compute_anchor_eligibility(energy, flavor, zone, clamped_length),
          shimmer_eligibility |->
              compute_shimmer_eligibility(energy, flavor, zone, clamped_length),
          aux_eligibility |->
              compute_aux_eligibility(energy, flavor, zone, clamped_length) ]

-----------------------------------------------------------------------------
(* velocity.py  (build, punch in thousandths; phrase_progress in 1/840;   *)
(* velocities, boosts and variation in millionths)                        *)

\* hash magic numbers for velocity
VEL_ACCENT_HASH_MAGIC == 1094930004       \* 0x41434E54

VEL_VARIATION_HASH_MAGIC == 1447121481    \* 0x56415249

\* DEFAULT_ACCENT_MASKS / get_default_accent_mask
get_default_accent_mask(voice) ==
    CASE voice = "ANCHOR"  -> {s \in 0 .. 31 : s % 4 = 0}      \* 0x11111111
      [] voice = "SHIMMER" -> {0, 8, 16, 24}                   \* 0x01010101
      [] voice = "AUX"     -> {s \in 0 .. 31 : s % 4 = 2}      \* 0x44444444
      [] OTHER             -> QUARTER_NOTE_MASK

\* compute_punch_params.  accent_probability is in units of 2^-24, the
\* unit of hash_to_float (2^24 / 10000 is 8388.608 / 5).
compute_punch_params(punch_arg) ==
    LET punch == Clamp01(punch_arg)
    IN  [ accent_probability |-> ((2000 + 3 * punch) * 8389) \div 5,
          velocity_floor |-> 650000 - 350 * punch,
          accent_boost |-> 150000 + 300 * punch,
          velocity_variation |-> 30000 + 120 * punch ]

\* compute_build_modifiers with force_accents = build > 0.6 in every phase
compute_build_modifiers_accent_anywhere(build_arg, progress_arg) ==
    LET build == Max(0, Min(1000, build_arg))
        p == Max(0, Min(840, progress_arg))
        phase == IF p < 504 THEN "GROOVE"
                 ELSE IF p < 735 THEN "BUILD" ELSE "FILL"
    IN  [ phase |-> phase,
          density_multiplier |->
              CASE phase = "GROOVE" -> <<1, 1>>
                [] phase = "BUILD"  -> <<660000 + build * (p - 504), 660000>>
                [] OTHER            -> <<2000 + build, 2000>>,
          velocity_boost |->
              CASE phase = "GROOVE" -> 0
                [] phase = "BUILD"  -> (build * 80 * (p - 504)) \div 231
                [] OTHER            -> build * 120,
          force_accents |-> build > 600,
          in_fill_zone |-> phase = "FILL",
          fill_intensity |-> IF phase = "FILL" THEN build ELSE 0,
          phrase_progress |-> p ]

\* compute_build_modifiers.  density_multiplier is the rational <<n, d>>:
\* in BUILD 1 + build * 0.35 * (progress - 0.60) / 0.275, which in these
\* units is 1 + build * (p - 504) / 660000.
compute_build_modifiers(build_arg, progress_arg) ==
    LET build == Clamp01(build_arg)
        p == Max(0, Min(840, progress_arg))
        phase == IF p < 504 THEN "GROOVE"
                 ELSE IF p < 735 THEN "BUILD" ELSE "FILL"
    IN  [ phase |-> phase,
          density_multiplier |->
              CASE phase = "GROOVE" -> <<1, 1>>
                [] phase = "BUILD"  -> <<660000 + build * (p - 504), 660000>>
                [] OTHER            -> <<2000 + build, 2000>>,
          velocity_boost |->
              CASE phase = "GROOVE" -> 0
                [] phase = "BUILD"  -> (build * 80 * (p - 504)) \div 231
                [] OTHER            -> build * 120,
          force_accents |-> phase = "FILL" /\ build > 600,
          in_fill_zone |-> phase = "FILL",
          fill_intensity |-> IF phase = "FILL" THEN build ELSE 0,
          phrase_progress |-> p ]

\* should_accent
should_accent(step, accent_mask, accent_probability, build_mods, seed) ==
    IF build_mods.force_accents THEN TRUE
    ELSE IF (step % 32) \notin accent_mask THEN FALSE
    ELSE hash_to_float(Xor(seed, VEL_ACCENT_HASH_MAGIC), step)
            < accent_probability

\* compute_velocity before the final clamp
raw_velocity(punch_params, build_mods, is_accent, seed, step) ==
    LET var_roll == hash_to_float(Xor(seed, VEL_VARIATION_HASH_MAGIC), step)
    IN  punch_params.velocity_floor
        + build_mods.velocity_boost
        + (IF is_accent THEN punch_params.accent_boost ELSE 0)
        + (IF build_mods.in_fill_zone /\ build_mods.fill_intensity > 0
           THEN build_mods.fill_intensity * 150 ELSE 0)
        + (IF punch_params.velocity_variation > 1000
           THEN (((var_roll - 8388608) \div 1024)
                    * punch_params.velocity_variation) \div 8192
           ELSE 0)

\* compute_velocity returning the unclamped sum
compute_velocity_unclamped(punch_params, build_mods, is_accent, seed, step) ==
    raw_velocity(punch_params, build_mods, is_accent, seed, step)

\* compute_velocity: clamp(velocity, 0.30, 1.0)
compute_velocity(punch_params, build_mods, is_accent, seed, step) ==
    Max(300000,
        Min(1000000,
            raw_velocity(punch_params, build_mods, is_accent, seed, step)))

-----------------------------------------------------------------------------
(* euclidean.py: blending with the Gumbel selection *)

\* get_genre_euclidean_ratio, in units of 1e-7:
\* base_ratio * (1 - 0.7 * field_x), 0 outside MINIMAL and GROOVE
get_genre_euclidean_ratio(genre, field_x_arg, zone) ==
    LET field_x == Clamp01(field_x_arg)
        base_ratio == CASE genre = "TECHNO" -> 700
                        [] genre = "TRIBAL" -> 400
                        [] OTHER            -> 0
    IN  IF zone \notin {"MINIMAL", "GROOVE"} THEN 0
        ELSE Max(0, Min(10000000, base_ratio * (10000 - 7 * field_x)))

\* blend_euclidean_with_weights without the `& eligibility` on the rotated
\* Euclidean pattern
blend_euclidean_unmasked(budget_arg, steps_arg, weights, eligibility, ratio, seed, fp_low) ==
    LET rn == Max(0, Min(ratio[2], ratio[1]))
        rd == ratio[2]
        bud == Max(0, budget_arg)
        steps == Max(1, Min(32, steps_arg))
        euclidean_hits == (bud * rn) \div rd
        euclidean_pattern ==
            rotate_pattern(generate_euclidean(
                               IF 100 * rn > 99 * rd THEN bud
                               ELSE euclidean_hits, steps, fp_low),
                           seed % steps, steps)
    IN  IF bud = 0 THEN {}
        ELSE IF 100 * rn < rd
        THEN select_hits_gumbel(weights, eligibility, bud, seed, steps, 0)
        ELSE IF 100 * rn > 99 * rd
        THEN euclidean_pattern
        ELSE euclidean_pattern
                 \cup select_hits_gumbel(weights,
                                         eligibility \ euclidean_pattern,
                                         bud - euclidean_hits,
                                         Xor(seed, 57537), steps, 0)

\* blend_euclidean_with_weights whose Gumbel stage is offered every
\* eligible step, the Euclidean positions included
blend_euclidean_gumbel_anywhere(budget_arg, steps_arg, weights, eligibility, ratio, seed, fp_low) ==
    LET rn == Max(0, Min(ratio[2], ratio[1]))
        rd == ratio[2]
        bud == Max(0, budget_arg)
        steps == Max(1, Min(32, steps_arg))
        rotation == seed % steps
        euclidean_hits == (bud * rn) \div rd
        gumbel_hits == bud - euclidean_hits
    IN  IF bud = 0 THEN {}
        ELSE IF 100 * rn < rd
        THEN select_hits_gumbel(weights, eligibility, bud, seed, steps, 0)
        ELSE IF 100 * rn > 99 * rd
        THEN rotate_pattern(generate_euclidean(bud, steps, fp_low),
                            rotation, steps) \cap eligibility
        ELSE (rotate_pattern(generate_euclidean(euclidean_hits, steps, fp_low),
                             rotation, steps) \cap eligibility)
             \cup select_hits_gumbel(weights, eligibility, gumbel_hits,
                                     Xor(seed, 57537), steps, 0)

\* blend_euclidean_with_weights whose Gumbel stage keeps two steps between
\* hits
blend_euclidean_spaced(budget_arg, steps_arg, weights, eligibility, ratio, seed, fp_low) ==
    LET rn == Max(0, Min(ratio[2], ratio[1]))
        rd == ratio[2]
        bud == Max(0, budget_arg)
        steps == Max(1, Min(32, steps_arg))
        rotation == seed % steps
        euclidean_hits == (bud * rn) \div rd
        gumbel_hits == bud - euclidean_hits
        gumbel_part(euclidean_pattern) ==
            select_hits_gumbel(weights, eligibility \ euclidean_pattern,
                               gumbel_hits, Xor(seed, 57537), steps, 2)
    IN  IF bud = 0 THEN {}
        ELSE IF 100 * rn < rd
        THEN select_hits_gumbel(weights, eligibility, bud, seed, steps, 0)
        ELSE IF 100 * rn > 99 * rd
        THEN rotate_pattern(generate_euclidean(bud, steps, fp_low),
                            rotation, steps) \cap eligibility
        ELSE Only({ euclidean_pattern \cup gumbel_part(euclidean_pattern)
        : euclidean_pattern \in {rotate_pattern(generate_euclidean(euclidean_hits, steps, fp_low), rotation, steps) \cap eligibility} })

\* blend_euclidean_with_weights; euclidean_ratio is the rational
\* ratio[1]/ratio[2] and fp_low the rounding of generate_euclidean
blend_euclidean_with_weights(budget_arg, steps_arg, weights, eligibility, ratio, seed, fp_low) ==
    LET rn == Max(0, Min(ratio[2], ratio[1]))
        rd == ratio[2]
        bud == Max(0, budget_arg)
        steps == Max(1, Min(32, steps_arg))
        rotation == seed % steps
        euclidean_hits == (bud * rn) \div rd
        gumbel_hits == bud - euclidean_hits
        euclidean_part ==
            rotate_pattern(generate_euclidean(euclidean_hits, steps, fp_low),
                           rotation, steps) \cap eligibility
        gumbel_part(euclidean_pattern) ==
            select_hits_gumbel(weights, eligibility \ euclidean_pattern,
                               gumbel_hits, Xor(seed, 57537),    \* 0xE0C1
                               steps, 0)
    IN  IF bud = 0 THEN {}
        ELSE IF 100 * rn < rd
        THEN select_hits_gumbel(weights, eligibility, bud, seed, steps, 0)
        ELSE IF 100 * rn > 99 * rd
        THEN rotate_pattern(generate_euclidean(bud, steps, fp_low),
                            rotation, steps) \cap eligibility
        ELSE Only({ euclidean_pattern \cup gumbel_part(euclidean_pattern)
        : euclidean_pattern \in {euclidean_part} })

-----------------------------------------------------------------------------
(* archetypes.py and pattern_field.py: the blended weight arrays.  The     *)
(* archetype table is not among the sources; what is known of it is that   *)
(* every weight lies in [0, 1] and that the TECHNO archetype at [0, 0] has *)
(* anchor weights of at least 0.9 on the steps 0, 4, 8, ..., 28.           *)

archetype_weight(genre, voice, step, field_x, field_y) ==
    CASE genre = "TECHNO" /\ voice = "ANCHOR" ->
            IF step % 4 = 0 THEN 950
            ELSE IF step % 2 = 0 THEN 200 + field_x \div 5
            ELSE field_x \div 4 + field_y \div 10
      [] genre = "TECHNO" /\ voice = "SHIMMER" ->
            IF step \in {8, 24} THEN 950
            ELSE IF step % 4 = 2 THEN 400
            ELSE 100 + field_x \div 10
      [] genre = "TRIBAL" /\ voice = "ANCHOR" ->
            IF step % 3 = 0 THEN 850 ELSE 250 + field_y \div 5
      [] genre = "TRIBAL" /\ voice = "SHIMMER" ->
            IF step % 4 = 2 THEN 800 ELSE 200 + field_x \div 10
      [] genre = "IDM" /\ voice = "ANCHOR" ->
            300 + ((step * 7) % 10) * 60
      [] genre = "IDM" /\ voice = "SHIMMER" ->
            200 + ((step * 3) % 8) * 90
      [] OTHER ->
            IF step % 2 = 0 THEN 700 ELSE 350 + field_y \div 10

\* blend_archetypes: the three blended weight arrays
blend_archetypes(genre, field_x_arg, field_y_arg) ==
    LET field_x == Clamp01(field_x_arg)
        field_y == Clamp01(field_y_arg)
    IN  [ anchor_weights |->
              [i \in 1 .. 32 |->
                  archetype_weight(genre, "ANCHOR", i - 1, field_x, field_y)],
          shimmer_weights |->
              [i \in 1 .. 32 |->
                  archetype_weight(genre, "SHIMMER", i - 1, field_x, field_y)],
          aux_weights |->
              [i \in 1 .. 32 |->
                  archetype_weight(genre, "AUX", i - 1, field_x, field_y)] ]

-----------------------------------------------------------------------------
(* pipeline.py *)

\* _apply_voice_coupling with INTERLOCK leaving the shimmer mask as it is
apply_voice_coupling_no_interlock(anchor_mask, shimmer_mask, coupling, pattern_length) ==
    IF coupling \in {"INDEPENDENT", "INTERLOCK"} THEN shimmer_mask
    ELSE ({b + 1 : b \in anchor_mask}
          \cup {b - (pattern_length - 1) :
                    b \in {x \in anchor_mask : x >= pattern_length - 1}})
         \cap (IF pattern_length < 32 THEN 0 .. pattern_length - 1
               ELSE 0 .. 31)

\* _apply_voice_coupling whose SHADOW shifts without wrapping the last step
apply_voice_coupling_shadow_nowrap(anchor_mask, shimmer_mask, coupling, pattern_length) ==
    IF coupling = "INDEPENDENT" THEN shimmer_mask
    ELSE IF coupling = "INTERLOCK" THEN shimmer_mask \ anchor_mask
    ELSE {b + 1 : b \in anchor_mask}
         \cap (IF pattern_length < 32 THEN 0 .. pattern_length - 1
               ELSE 0 .. 31)

\* _apply_voice_coupling that suppresses simultaneous hits in INDEPENDENT
\* mode as well
apply_voice_coupling_always_interlock(anchor_mask, shimmer_mask, coupling, pattern_length) ==
    IF coupling \in {"INDEPENDENT", "INTERLOCK"} THEN shimmer_mask \ anchor_mask
    ELSE ({b + 1 : b \in anchor_mask}
          \cup {b - (pattern_length - 1) :
                    b \in {x \in anchor_mask : x >= pattern_length - 1}})
         \cap (IF pattern_length < 32 THEN 0 .. pattern_length - 1
               ELSE 0 .. 31)

\* _apply_voice_coupling
apply_voice_coupling(anchor_mask, shimmer_mask, coupling, pattern_length) ==
    IF coupling = "INDEPENDENT" THEN shimmer_mask
    ELSE IF coupling = "INTERLOCK" THEN shimmer_mask \ anchor_mask
    ELSE ({b + 1 : b \in anchor_mask}
          \cup {b - (pattern_length - 1) :
                    b \in {x \in anchor_mask : x >= pattern_length - 1}})
         \cap (IF pattern_length < 32 THEN 0 .. pattern_length - 1
               ELSE 0 .. 31)

\* the clamp of line 168 alone, without the cap at 32 of line 171
clamped_length_uncapped(pattern_length) ==
    Max(16, Min(64, pattern_length))

\* generate_pattern, lines 168-171: pattern_length clamped to [16, 64],
\* then to 32 for the bitmask operations
clamped_length_of(pattern_length) ==
    Min(Max(16, Min(64, pattern_length)), 32)

\* generate_pattern, steps 1, 3 and 4: the BarBudget of the call
pattern_budget(st) ==
    LET energy == Clamp01(st.energy)
        zone == compute_energy_zone(energy)
        build_mods == compute_build_modifiers(Clamp01(st.build),
                                              st.phrase_progress)
    IN  compute_bar_budget(energy, Clamp01(st.balance), zone,
                           clamped_length_of(st.pattern_length),
                           build_mods.density_multiplier,
                           Clamp01(st.field_x))

\* generate_pattern, step 12 for one voice: the 32 velocities
voice_velocities(mask, clamped_length, accent_mask, punch_params, build_mods, seed) ==
    [i \in 1 .. 32 |->
        IF i - 1 < clamped_length /\ (i - 1) \in mask
        THEN compute_velocity(
                 punch_params, build_mods,
                 should_accent(i - 1, accent_mask,
                               punch_params.accent_probability, build_mods,
                               seed),
                 seed, i - 1)
        ELSE 0]

\* generate_pattern: the PatternOutput (dominant_archetype and
\* blended_swing, read from the archetype table, are left out)
generate_pattern(st) ==
    LET energy == Clamp01(st.energy)
        build == Clamp01(st.build)
        field_x == Clamp01(st.field_x)
        field_y == Clamp01(st.field_y)
        punch == Clamp01(st.punch)
        seed == st.seed
        shimmer_seed == Xor(seed, 74565)            \* 0x12345
        aux_seed == Xor(seed, 424080)               \* 0x67890
        clamped_length == clamped_length_of(st.pattern_length)
        zone == compute_energy_zone(energy)
        euclidean_ratio == get_genre_euclidean_ratio(st.genre, field_x, zone)
        min_spacing == get_min_spacing_for_zone(zone)
        \* steps 6 and 7: one of anchor and shimmer; the shimmer ratio is
        \* euclidean_ratio * 0.5
        select_voice(weights, hits, eligibility, ratio_den, voice_seed) ==
            IF euclidean_ratio > 100000
            THEN blend_euclidean_with_weights(
                     hits, clamped_length, weights, eligibility,
                     <<euclidean_ratio, ratio_den>>, voice_seed, st.fp_low)
            ELSE select_hits_gumbel(weights, eligibility, hits, voice_seed,
                                    clamped_length, min_spacing)
        \* steps 10 to 12 and the hit counts
        finish(anchor_mask, shimmer_mask, aux_mask, punch_params,
               build_mods) ==
            [ anchor_mask |-> anchor_mask,
              shimmer_mask |-> shimmer_mask,
              aux_mask |-> aux_mask,
              anchor_velocities |->
                  voice_velocities(anchor_mask, clamped_length,
                                   get_default_accent_mask("ANCHOR"),
                                   punch_params, build_mods, seed),
              shimmer_velocities |->
                  voice_velocities(shimmer_mask, clamped_length,
                                   get_default_accent_mask("SHIMMER"),
                                   punch_params, build_mods, shimmer_seed),
              aux_velocities |->
                  voice_velocities(aux_mask, clamped_length,
                                   get_default_accent_mask("AUX"),
                                   punch_params, build_mods, aux_seed),
              pattern_length |-> clamped_length,
              anchor_hits |-> count_bits(anchor_mask),
              shimmer_hits |-> count_bits(shimmer_mask),
              aux_hits |-> count_bits(aux_mask),
              energy_zone |-> zone ]
    IN  Only({ Only({ Only({ Only({ Only({ Only({ Only({ Only({ finish(anchor_mask, shimmer_mask, aux_mask, punch_params,
                   build_mods)
        : punch_params \in {compute_punch_params(punch)} })
        : aux_mask \in {select_hits_gumbel(blended.aux_weights, bud.aux_eligibility, bud.aux_hits, aux_seed, clamped_length, 0)} })
        : shimmer_mask \in {apply_voice_coupling(anchor_mask, shimmer_selected, st.voice_coupling, clamped_length)} })
        : shimmer_selected \in {select_voice(blended.shimmer_weights, bud.shimmer_hits, bud.shimmer_eligibility, 20000000, shimmer_seed)} })
        : anchor_mask \in {select_voice(blended.anchor_weights, bud.anchor_hits, bud.anchor_eligibility, 10000000, seed)} })
        : bud \in {pattern_budget(st)} })
        : build_mods \in {compute_build_modifiers(build, st.phrase_progress)} })
        : blended \in {blend_archetypes(st.genre, field_x, field_y)} })

-----------------------------------------------------------------------------
(* Sample inputs *)

\* number of seeds the runs draw from
NumSeeds == 2

\* the default seed 0x12345678, then seeds derived from it the way
\* generate_phrase derives bar seeds
SeedOf(i) == Xor(305419896, (i - 1) * 19088743)

Seeds == {SeedOf(i) : i \in 1 .. NumSeeds}

\* weight arrays: flat; strong first beat group; quarter notes only (the
\* other steps have weight 0); an array shorter than the pattern
WeightProfiles ==
    { [i \in 1 .. 32 |-> 500],
      [i \in 1 .. 32 |-> IF i <= 8 THEN 900 ELSE 100],
      [i \in 1 .. 32 |-> IF (i - 1) % 4 = 0 THEN 1000 ELSE 0],
      [i \in 1 .. 12 |-> 700] }

EligibilitySamples ==
    { 0 .. 31, {0, 8, 16, 24}, 0 .. 15, 0 .. 3, {},
      {s \in 0 .. 31 : s % 2 = 0} }

GumbelInputs ==
    [ weights : WeightProfiles,
      eligibility_mask : EligibilitySamples,
      target_count : {0, 3, 10, 20},
      seed : Seeds,
      pattern_length : {16, 32},
      min_spacing : {0, 2, 4} ]

-----------------------------------------------------------------------------
(* select_hits_gumbel, one loop iteration per step *)

Passes == {"pass1", "pass2", "pass3"}

\* pattern_length = min(pattern_length, 32)
GLength == Min(g_in.pattern_length, 32)

\* GTarget without the cap at 16
GTarget_uncapped == g_in.target_count

\* target_count = min(target_count, 16)
GTarget == Min(g_in.target_count, 16)

\* GBest with the spacing of the first pass kept in every pass
GBest_unrelaxed ==
    find_best_step(scores, g_in.eligibility_mask, selected_mask, GLength,
                   g_in.min_spacing)

GBest == find_best_step(scores, g_in.eligibility_mask, selected_mask,
                        GLength, cur_spacing)

InitGumbel ==
    /\ op = "select_hits_gumbel"
    /\ pc = "call"
    /\ g_in \in GumbelInputs
    /\ scores = <<>>
    /\ selected_mask = {}
    /\ selected_count = 0
    /\ last_step = -1
    /\ cur_spacing = 0
    /\ e_in = <<>> /\ e_out = {}
    /\ p_in = <<>> /\ output = <<>> /\ budget = <<>>
    /\ patterns = <<>> /\ bar = 0

\* lines 156-169: the early return, else the scores and the empty selection
GumbelEnter ==
    /\ op = "select_hits_gumbel" /\ pc = "call"
    /\ IF g_in.target_count <= 0 \/ g_in.eligibility_mask = {}
       THEN /\ pc' = "done"
            /\ UNCHANGED <<scores, cur_spacing>>
       ELSE /\ pc' = "pass1"
            /\ scores' = compute_gumbel_scores(g_in.weights, g_in.seed, GLength)
            /\ cur_spacing' = g_in.min_spacing
    /\ selected_mask' = {}
    /\ selected_count' = 0
    /\ UNCHANGED <<op, g_in, last_step, e_in, e_out, p_in, output, budget,
                   patterns, bar>>

\* one iteration of a selection loop that finds a step
GumbelSelect ==
    /\ op = "select_hits_gumbel" /\ pc \in Passes
    /\ selected_count < GTarget
    /\ GBest >= 0
    /\ selected_mask' = selected_mask \cup {GBest}
    /\ selected_count' = selected_count + 1
    /\ last_step' = GBest
    /\ UNCHANGED <<op, pc, g_in, scores, cur_spacing, e_in, e_out, p_in,
                   output, budget, patterns, bar>>

\* GumbelLeaveLoop where a failed search in the last loop starts the first
\* loop again instead of returning
GumbelLeaveLoop_restart ==
    /\ op = "select_hits_gumbel" /\ pc \in Passes
    /\ selected_count >= GTarget \/ GBest < 0
    /\ IF pc = "pass1" /\ selected_count < GTarget /\ g_in.min_spacing > 0
       THEN pc' = "pass2" /\ cur_spacing' = g_in.min_spacing \div 2
       ELSE IF pc \in {"pass1", "pass2"} /\ selected_count < GTarget
       THEN pc' = "pass3" /\ cur_spacing' = 0
       ELSE IF selected_count < GTarget
       THEN pc' = "pass1" /\ cur_spacing' = g_in.min_spacing
       ELSE pc' = "done" /\ UNCHANGED cur_spacing
    /\ last_step' = -1
    /\ UNCHANGED <<op, g_in, scores, selected_mask, selected_count, e_in,
                   e_out, p_in, output, budget, patterns, bar>>

\* a selection loop ends (target reached, or `break`), and the code goes on
\* to the next pass whose condition holds, or returns
GumbelLeaveLoop ==
    /\ op = "select_hits_gumbel" /\ pc \in Passes
    /\ selected_count >= GTarget \/ GBest < 0
    /\ IF pc = "pass1" /\ selected_count < GTarget /\ g_in.min_spacing > 0
       THEN pc' = "pass2" /\ cur_spacing' = g_in.min_spacing \div 2
       ELSE IF pc \in {"pass1", "pass2"} /\ selected_count < GTarget
       THEN pc' = "pass3" /\ cur_spacing' = 0
       ELSE pc' = "done" /\ UNCHANGED cur_spacing
    /\ last_step' = -1
    /\ UNCHANGED <<op, g_in, scores, selected_mask, selected_count, e_in,
                   e_out, p_in, output, budget, patterns, bar>>

NextGumbel == GumbelEnter \/ GumbelSelect \/ GumbelLeaveLoop

SpecGumbel == InitGumbel /\ [][NextGumbel]_vars


-----------------------------------------------------------------------------
(* generate_euclidean and rotate_pattern, one call per run *)

\* largest hits and steps argument drawn for generate_euclidean
MaxEuclidArg == 32

\* width of the patterns enumerated for rotate_pattern
MaxRotBits == 5

EuclidInputs ==
    [ hits : -1 .. MaxEuclidArg,
      steps : 1 .. MaxEuclidArg,
      fp_low : BOOLEAN ]

RotateInputs ==
    [ pattern : (SUBSET (0 .. MaxRotBits - 1)) \cup {{0, 31}, {5, 17, 30}},
      offset : (-2 .. MaxRotBits + 1) \cup {32},
      steps : (1 .. MaxRotBits) \cup {32} ]

InitEuclid ==
    /\ \/ op = "generate_euclidean" /\ e_in \in EuclidInputs
       \/ op = "rotate_pattern" /\ e_in \in RotateInputs
    /\ pc = "call"
    /\ e_out = {}
    /\ g_in = <<>> /\ scores = <<>> /\ selected_mask = {}
    /\ selected_count = 0 /\ last_step = -1 /\ cur_spacing = 0
    /\ p_in = <<>> /\ output = <<>> /\ budget = <<>>
    /\ patterns = <<>> /\ bar = 0

CallGenerateEuclidean ==
    /\ op = "generate_euclidean" /\ pc = "call"
    /\ e_out' = generate_euclidean(e_in.hits, e_in.steps, e_in.fp_low)
    /\ pc' = "done"
    /\ UNCHANGED <<op, g_in, scores, selected_mask, selected_count, last_step,
                   cur_spacing, e_in, p_in, output, budget, patterns, bar>>

CallRotatePattern ==
    /\ op = "rotate_pattern" /\ pc = "call"
    /\ e_out' = rotate_pattern(e_in.pattern, e_in.offset, e_in.steps)
    /\ pc' = "done"
    /\ UNCHANGED <<op, g_in, scores, selected_mask, selected_count, last_step,
                   cur_spacing, e_in, p_in, output, budget, patterns, bar>>

NextEuclid == CallGenerateEuclidean \/ CallRotatePattern

SpecEuclid == InitEuclid /\ [][NextEuclid]_vars

-----------------------------------------------------------------------------
(* Claims about select_hits_gumbel *)

GumbelDone == op = "select_hits_gumbel" /\ pc = "done"

\* the eligible steps below the pattern length whose weight is at least
\* EPSILON
GSelectable ==
    {s \in g_in.eligibility_mask :
        s < GLength /\ WeightAt(g_in.weights, s) >= 1}

\* C1 as stated: the returned mask has exactly
\* min(k, popcount(eligibility), 16) bits set, for every weights array.
C1_CountIsMinOfTargetAndEligible ==
    GumbelDone =>
        Cardinality(selected_mask) =
            Min(Min(g_in.target_count, Cardinality(g_in.eligibility_mask)), 16)

\* C1 amended: the returned mask has exactly min(k, c, 16) bits set, where c
\* counts the eligible steps below the pattern length whose weight is at
\* least EPSILON.
C1_CountIsMinOfTargetAndSelectable ==
    GumbelDone =>
        Cardinality(selected_mask) =
            Min(Min(g_in.target_count, Cardinality(GSelectable)), 16)

\* C1 witness: a call that returns fewer hits than asked because only the
\* positive-weight eligible steps could be taken.
C1_Witness ==
    /\ GumbelDone
    /\ selected_mask # {}
    /\ Cardinality(selected_mask) = Cardinality(GSelectable)
    /\ Cardinality(selected_mask) < g_in.target_count
    /\ Cardinality(GSelectable) < Cardinality(g_in.eligibility_mask)

\* C2: at every point of the selection and in the returned mask, the
\* selected steps are eligible steps below pattern_length, and every
\* selection added a new step (the count equals the number of set bits).
C2_SelectedEligibleAndDistinct ==
    op = "select_hits_gumbel" =>
        /\ selected_mask \subseteq g_in.eligibility_mask
        /\ \A s \in selected_mask : s < g_in.pattern_length
        /\ selected_count = Cardinality(selected_mask)

\* C2 witness: the third pass has just selected a step, after earlier
\* passes selected others.
C2_Witness ==
    /\ op = "select_hits_gumbel"
    /\ pc = "pass3"
    /\ last_step >= 0
    /\ selected_count >= 3

\* C15: with min_spacing > 0 the returned mask has as many bits as the mask
\* the same call returns with min_spacing = 0.
C15_SpacingCostsNoHits ==
    (GumbelDone /\ g_in.min_spacing > 0) =>
        Cardinality(selected_mask) =
            Cardinality(select_hits_gumbel(g_in.weights, g_in.eligibility_mask,
                                           g_in.target_count, g_in.seed,
                                           g_in.pattern_length, 0))

\* C15 witness: a call with min_spacing > 0 whose first pass, alone, ends
\* short of the hits returned: the relaxed passes supplied the rest.
C15_Witness ==
    /\ GumbelDone /\ g_in.min_spacing > 0
    /\ selected_mask # {}
    /\ select_loop(scores, g_in.eligibility_mask, {}, 0, GTarget, GLength,
                   g_in.min_spacing)[2] < selected_count

\* C20: in every pass and in the returned mask, no selected step has a
\* weight below EPSILON or lies beyond the end of the weights array.
C20_NoZeroWeightStepSelected ==
    op = "select_hits_gumbel" =>
        \A s \in selected_mask : WeightAt(g_in.weights, s) >= 1

\* C20 witness: the last pass stops short of the target while eligible
\* steps of weight 0 are still unselected.
C20_Witness ==
    /\ op = "select_hits_gumbel" /\ pc = "pass3"
    /\ selected_count < GTarget /\ GBest < 0
    /\ selected_mask # {}
    /\ \E s \in g_in.eligibility_mask \ selected_mask :
          s < GLength /\ WeightAt(g_in.weights, s) < 1

\* circular distance of two steps of the pattern
CircularDistance(a, b) == Min(Abs(a - b), GLength - Abs(a - b))

\* every pair of selected steps is at least min_spacing apart, around the
\* wrap from the last step to step 0 as well
GSpaced ==
    \A a \in selected_mask : \A b \in selected_mask \ {a} :
        CircularDistance(a, b) >= g_in.min_spacing

\* the first loop, run alone from the empty selection, reaches the target
GStrictPassSuffices ==
    /\ scores # <<>>
    /\ select_loop(scores, g_in.eligibility_mask, {}, 0, GTarget, GLength,
                   g_in.min_spacing)[2] >= GTarget

\* C21: during the first pass every pair of selected steps has circular
\* distance >= min_spacing, and when the first pass alone reaches the target
\* the returned mask has that spacing for every pair of hits.
C21_StrictPassKeepsSpacing ==
    op = "select_hits_gumbel" =>
        /\ pc = "pass1" => GSpaced
        /\ (pc = "done" /\ GStrictPassSuffices) => GSpaced

\* C21 witness: the first pass alone reached a target of three or more
\* hits with min_spacing > 0, and left unselected a positive-weight eligible
\* step that is far enough from every hit directly but too close to one
\* around the wrap.
C21_Witness ==
    /\ GumbelDone /\ GStrictPassSuffices
    /\ g_in.min_spacing > 0
    /\ selected_count >= 3
    /\ \E c \in GSelectable \ selected_mask :
          /\ \A s \in selected_mask : Abs(c - s) >= g_in.min_spacing
          /\ \E s \in selected_mask :
                GLength - Abs(c - s) < g_in.min_spacing

\* A step of the running call, named by its effect: the position in the
\* function body changes or one more selection is counted. Every step of
\* NextGumbel is one, and one is possible exactly while the call has not
\* returned.
GumbelAdvance ==
    /\ op = "select_hits_gumbel" /\ pc # "done"
    /\ pc' \in Passes \cup {"done"}
    /\ selected_count' \in 0 .. 16
    /\ <<pc', selected_count'>> # <<pc, selected_count>>

\* the interpreter keeps executing the call until it returns
SpecGumbelLive == SpecGumbel /\ WF_<<pc, selected_count>>(GumbelAdvance)

\* position in the function body: entry, the three loops in order, return
PcRank(p) ==
    CASE p = "call"  -> 0
      [] p = "pass1" -> 1
      [] p = "pass2" -> 2
      [] p = "pass3" -> 3
      [] OTHER       -> 4

\* C22: select_hits_gumbel terminates. Every step of the function either
\* moves forward (into the first loop, out of a loop, never back), or is a
\* loop iteration that adds exactly one new step to the selected mask; the
\* selections never exceed min(target_count, 16); and the function returns.
C22_SelectTerminates ==
    /\ [][ op = "select_hits_gumbel" =>
             \/ PcRank(pc') > PcRank(pc)
             \/ /\ pc' = pc /\ pc \in Passes
                /\ selected_count' = selected_count + 1
                /\ selected_mask' # selected_mask
                /\ Cardinality(selected_mask') = Cardinality(selected_mask) + 1
          ]_vars
    /\ [](op = "select_hits_gumbel" =>
             selected_count <= Max(0, Min(g_in.target_count, 16)))
    /\ <>(pc = "done")

\* C22 witness: the third loop, after the first two fell short with
\* min_spacing > 0, finds no further step and is about to end the call.
C22_Witness ==
    /\ op = "select_hits_gumbel" /\ pc = "pass3"
    /\ g_in.min_spacing > 0
    /\ selected_count >= 2 /\ selected_count < GTarget
    /\ find_best_step(scores, g_in.eligibility_mask, selected_mask, GLength, 0) < 0


-----------------------------------------------------------------------------
(* Claims about generate_euclidean and rotate_pattern *)

EuclidDone == op = "generate_euclidean" /\ pc = "done"

RotateDone == op = "rotate_pattern" /\ pc = "done"

\* C3: for hits in [0,32] and steps in [1,32] the mask has exactly
\* min(hits, steps) bits, all below bit `steps`; it is 0 when hits <= 0 and
\* the all-ones mask when hits >= steps.
C3_EuclideanExactCount ==
    (EuclidDone /\ e_in.hits <= 32 /\ e_in.steps \in 1 .. 32) =>
        /\ Cardinality(e_out) = Min(Max(e_in.hits, 0), e_in.steps)
        /\ e_out \subseteq 0 .. e_in.steps - 1
        /\ e_in.hits <= 0 => e_out = {}
        /\ e_in.hits >= e_in.steps => e_out = 0 .. e_in.steps - 1

\* C3 witness: a proper rhythm (1 < hits < steps) whose accumulated sum
\* falls short of 1.0 at the last step, so that the backfill loop places
\* the remaining hit.
C3_Witness ==
    /\ EuclidDone
    /\ e_in.fp_low
    /\ 1 < e_in.hits /\ e_in.hits < e_in.steps
    /\ Cardinality(e_out) = e_in.hits

-----------------------------------------------------------------------------
(* generate_pattern, one call per run *)

\* requested lengths: below 16, in range, above 64
PatternInputs ==
    [ energy : {100, 250, 600, 900},
      build : {0, 1000},
      field_x : {0},
      field_y : {0},
      punch : {500},
      genre : {"TECHNO", "TRIBAL", "IDM"},
      balance : {500},
      pattern_length : {8, 24, 100},
      phrase_progress : {0, 800},
      voice_coupling : {"INDEPENDENT", "INTERLOCK", "SHADOW"},
      seed : Seeds,
      fp_low : BOOLEAN ]

InitPattern ==
    /\ op = "generate_pattern"
    /\ pc = "call"
    /\ p_in \in PatternInputs
    /\ output = <<>> /\ budget = <<>>
    /\ g_in = <<>> /\ scores = <<>> /\ selected_mask = {}
    /\ selected_count = 0 /\ last_step = -1 /\ cur_spacing = 0
    /\ e_in = <<>> /\ e_out = {}
    /\ patterns = <<>> /\ bar = 0

\* the call; `budget` keeps the BarBudget computed at step 4
GeneratePattern ==
    /\ op = "generate_pattern" /\ pc = "call"
    /\ output' = generate_pattern(p_in)
    /\ budget' = pattern_budget(p_in)
    /\ pc' = "done"
    /\ UNCHANGED <<op, g_in, scores, selected_mask, selected_count, last_step,
                   cur_spacing, e_in, e_out, p_in, patterns, bar>>

NextPattern == GeneratePattern

SpecPattern == InitPattern /\ [][NextPattern]_vars

PatternDone == op = "generate_pattern" /\ pc = "done"

\* the three (mask, velocities) pairs of the output
VoicesOf(o) ==
    { <<o.anchor_mask, o.anchor_velocities>>,
      <<o.shimmer_mask, o.shimmer_velocities>>,
      <<o.aux_mask, o.aux_velocities>> }

\* C5: with voice_coupling = INTERLOCK the returned anchor_mask and
\* shimmer_mask share no set bit.
C5_InterlockNoOverlap ==
    (PatternDone /\ p_in.voice_coupling = "INTERLOCK")
        => output.anchor_mask \cap output.shimmer_mask = {}

\* an INTERLOCK call whose shimmer selection had picked an anchor step
C5_Witness ==
    /\ PatternDone /\ p_in.voice_coupling = "INTERLOCK"
    /\ output.anchor_mask # {} /\ output.shimmer_mask # {}
    /\ generate_pattern([p_in EXCEPT !.voice_coupling = "INDEPENDENT"])
           .shimmer_mask \cap output.anchor_mask # {}

\* C6: for each voice and each step 0..31, a set mask bit has a velocity in
\* [0.30, 1.0] and a clear bit has velocity exactly 0.
C6_VelocitiesMatchMasks ==
    PatternDone =>
        \A v \in VoicesOf(output) :
            \A step \in 0 .. 31 :
                IF step \in v[1]
                THEN v[2][step + 1] >= 300000 /\ v[2][step + 1] <= 1000000
                ELSE v[2][step + 1] = 0

\* a coupled shimmer voice with a hit whose velocity sits at the upper
\* clamp, next to a step without a hit
C6_Witness ==
    /\ PatternDone /\ p_in.voice_coupling = "SHADOW"
    /\ \E step \in output.shimmer_mask :
          output.shimmer_velocities[step + 1] = 1000000
    /\ \E step \in 0 .. 31 : step \notin output.shimmer_mask

\* C9 (as stated): for each voice the hit count does not exceed the
\* population count of the voice's eligibility mask in the bar budget.
C9_HitsWithinEligibility ==
    PatternDone =>
        /\ output.anchor_hits <= count_bits(budget.anchor_eligibility)
        /\ output.shimmer_hits <= count_bits(budget.shimmer_eligibility)
        /\ output.aux_hits <= count_bits(budget.aux_eligibility)

\* C10: the reported pattern_length is min(max(16, min(64, requested)), 32)
\* and no mask has a bit at or above it.
C10_LengthClampedMasksWithin ==
    PatternDone =>
        /\ output.pattern_length
               = Min(Max(16, Min(64, p_in.pattern_length)), 32)
        /\ \A v \in VoicesOf(output) :
               v[1] \subseteq 0 .. output.pattern_length - 1

\* a request above 64 reported as 32, with a hit on the last step
C10_Witness ==
    /\ PatternDone /\ p_in.pattern_length > 64
    /\ output.pattern_length = 32
    /\ 31 \in output.shimmer_mask

\* C16: with voice_coupling = SHADOW the shimmer mask is the anchor mask
\* rotated left by one step within the reported pattern_length (bit
\* (i + 1) mod pattern_length is set exactly when anchor bit i is), and the
\* two voices have the same number of hits.
C16_ShadowIsRotatedAnchor ==
    (PatternDone /\ p_in.voice_coupling = "SHADOW") =>
        /\ output.shimmer_mask
               = {(i + 1) % output.pattern_length : i \in output.anchor_mask}
        /\ output.shimmer_hits = output.anchor_hits

\* a SHADOW call whose anchor fires on the last step, which wraps to step 0
C16_Witness ==
    /\ PatternDone /\ p_in.voice_coupling = "SHADOW"
    /\ (output.pattern_length - 1) \in output.anchor_mask
    /\ 0 \in output.shimmer_mask
    /\ output.anchor_hits >= 2

-----------------------------------------------------------------------------
(* generate_phrase, one loop iteration per step *)

\* longest phrase drawn
MaxBars == 8

\* bars and the keyword arguments passed through to generate_pattern
PhraseInputs ==
    [ bars : {1, 2, 4, MaxBars - 1, MaxBars},
      energy : {490, 1000},
      build : {0, 900},
      field_x : {0},
      field_y : {0},
      punch : {500},
      genre : {"TECHNO", "IDM"},
      drift : {0, 5, 500},
      balance : {500},
      pattern_length : {32},
      voice_coupling : {"INDEPENDENT"},
      seed : Seeds,
      fp_low : {FALSE} ]

\* a bar seed that counts the bars from 1
bar_seed_of_from_one(seed, drift, b) ==
    IF drift < 10 THEN seed ELSE Xor(seed, (b + 1) * 19088743)

\* lines 323-329: the seed of a bar
bar_seed_of(seed, drift, b) ==
    IF drift < 10 THEN seed ELSE Xor(seed, b * 19088743)     \* 0x1234567

\* bar_state with phrase_progress = (bar + 1) / bars
bar_state_progress_from_one(kwargs, b) ==
    [ energy |-> kwargs.energy,
      build |-> kwargs.build,
      field_x |-> kwargs.field_x,
      field_y |-> kwargs.field_y,
      punch |-> kwargs.punch,
      genre |-> kwargs.genre,
      balance |-> kwargs.balance,
      pattern_length |-> kwargs.pattern_length,
      phrase_progress |-> (840 * (b + 1)) \div kwargs.bars,
      voice_coupling |-> kwargs.voice_coupling,
      seed |-> bar_seed_of(kwargs.seed, kwargs.drift, b),
      fp_low |-> kwargs.fp_low ]

\* lines 321-334: the arguments of the generate_pattern call of bar b,
\* phrase_progress = bar / bars in units of 1/840
bar_state(kwargs, b) ==
    [ energy |-> kwargs.energy,
      build |-> kwargs.build,
      field_x |-> kwargs.field_x,
      field_y |-> kwargs.field_y,
      punch |-> kwargs.punch,
      genre |-> kwargs.genre,
      balance |-> kwargs.balance,
      pattern_length |-> kwargs.pattern_length,
      phrase_progress |-> (840 * b) \div kwargs.bars,
      voice_coupling |-> kwargs.voice_coupling,
      seed |-> bar_seed_of(kwargs.seed, kwargs.drift, b),
      fp_low |-> kwargs.fp_low ]

InitPhrase ==
    /\ op = "generate_phrase"
    /\ pc = "loop"
    /\ p_in \in PhraseInputs
    /\ patterns = <<>>
    /\ bar = 0
    /\ output = <<>> /\ budget = <<>>
    /\ g_in = <<>> /\ scores = <<>> /\ selected_mask = {}
    /\ selected_count = 0 /\ last_step = -1 /\ cur_spacing = 0
    /\ e_in = <<>> /\ e_out = {}

\* one iteration of `for bar in range(bars)`
GenerateBar ==
    /\ op = "generate_phrase" /\ pc = "loop"
    /\ bar < p_in.bars
    /\ patterns' = Append(patterns, generate_pattern(bar_state(p_in, bar)))
    /\ bar' = bar + 1
    /\ UNCHANGED <<op, pc, g_in, scores, selected_mask, selected_count,
                   last_step, cur_spacing, e_in, e_out, p_in, output, budget>>

\* the loop is exhausted: return patterns
PhraseReturn ==
    /\ op = "generate_phrase" /\ pc = "loop"
    /\ bar >= p_in.bars
    /\ pc' = "done"
    /\ UNCHANGED <<op, g_in, scores, selected_mask, selected_count, last_step,
                   cur_spacing, e_in, e_out, p_in, output, budget, patterns,
                   bar>>

NextPhrase == GenerateBar \/ PhraseReturn

SpecPhrase == InitPhrase /\ [][NextPhrase]_vars

\* C8 (as stated): with drift < 0.01 every bar of the phrase has the same
\* anchor_mask as bar 0.
C8_ZeroDriftFrozenAnchor ==
    (op = "generate_phrase" /\ p_in.drift < 10)
        => \A b \in 1 .. Len(patterns) :
               patterns[b].anchor_mask = patterns[1].anchor_mask

\* C14 (as stated): in a phrase of 4 bars with build = 0.9 and the default
\* drift, anchor_hits never decreases from one bar to the next.
C14_BuildPhraseHitsNonDecreasing ==
    (op = "generate_phrase" /\ p_in.bars = 4 /\ p_in.build = 900
                            /\ p_in.drift = 500)
        => \A b \in 1 .. Len(patterns) - 1 :
               patterns[b + 1].anchor_hits >= patterns[b].anchor_hits

PhraseDone == op = "generate_phrase" /\ pc = "done"

\* the keyword arguments of the phrase call with phrase_progress and seed
\* replaced
PhraseArgsWith(progress, bar_seed) ==
    [bar_state(p_in, 0) EXCEPT !.phrase_progress = progress, !.seed = bar_seed]

PhraseBuildMods(b) ==
    compute_build_modifiers(Max(0, Min(1000, p_in.build)),
                            bar_state(p_in, b).phrase_progress)

\* position of a phase in the order GROOVE < BUILD < FILL
PhaseRank(phase) ==
    CASE phase = "GROOVE" -> 0
      [] phase = "BUILD"  -> 1
      [] phase = "FILL"   -> 2

-----------------------------------------------------------------------------
(* compute_energy_zone, compute_anchor_budget and compute_build_modifiers,  *)
(* one call (or one pair of calls) per run                                  *)

\* how many grid steps the drawn arguments reach beyond their range
MaxOver == 5

\* energies in thousandths: a grid of hundredths reaching beyond [0, 1],
\* and the values next to the zone thresholds
EnergyGrid ==
    {10 * k : k \in -MaxOver .. 100 + MaxOver}
        \cup {199, 201, 499, 501, 749, 751}

\* phrase_progress in 1/840 (0.60 is 504 = 21 * 24, 0.875 is 735 = 21 * 35)
ProgressGrid ==
    {21 * k : k \in -MaxOver .. 40 + MaxOver} \cup {503, 505, 734, 736}

BuildGrid == {-100, 0, 300, 600, 601, 900, 1000, 1100}

\* two energies e1 <= e2, each handed to the function
EnergyPairs ==
    {pr \in [e1 : EnergyGrid, e2 : EnergyGrid] : pr.e1 <= pr.e2}

BuildInputs == [build : BuildGrid, phrase_progress : ProgressGrid]

InitBudget ==
    /\ \/ op = "compute_energy_zone" /\ e_in \in EnergyPairs
       \/ op = "compute_anchor_budget" /\ e_in \in EnergyPairs
       \/ op = "compute_build_modifiers" /\ e_in \in BuildInputs
    /\ pc = "call"
    /\ e_out = {}
    /\ g_in = <<>> /\ scores = <<>> /\ selected_mask = {}
    /\ selected_count = 0 /\ last_step = -1 /\ cur_spacing = 0
    /\ p_in = <<>> /\ output = <<>> /\ budget = <<>>
    /\ patterns = <<>> /\ bar = 0

CallComputeEnergyZone ==
    /\ op = "compute_energy_zone" /\ pc = "call"
    /\ e_out' = <<compute_energy_zone(e_in.e1), compute_energy_zone(e_in.e2)>>
    /\ pc' = "done"
    /\ UNCHANGED <<op, g_in, scores, selected_mask, selected_count, last_step,
                   cur_spacing, e_in, p_in, output, budget, patterns, bar>>

\* compute_anchor_budget(e, compute_energy_zone(e), 32) for both energies
CallComputeAnchorBudget ==
    /\ op = "compute_anchor_budget" /\ pc = "call"
    /\ e_out' = <<compute_anchor_budget(e_in.e1,
                                        compute_energy_zone(e_in.e1), 32),
                  compute_anchor_budget(e_in.e2,
                                        compute_energy_zone(e_in.e2), 32)>>
    /\ pc' = "done"
    /\ UNCHANGED <<op, g_in, scores, selected_mask, selected_count, last_step,
                   cur_spacing, e_in, p_in, output, budget, patterns, bar>>

CallComputeBuildModifiers ==
    /\ op = "compute_build_modifiers" /\ pc = "call"
    /\ e_out' = compute_build_modifiers(e_in.build, e_in.phrase_progress)
    /\ pc' = "done"
    /\ UNCHANGED <<op, g_in, scores, selected_mask, selected_count, last_step,
                   cur_spacing, e_in, p_in, output, budget, patterns, bar>>

NextBudget ==
    CallComputeEnergyZone \/ CallComputeAnchorBudget
        \/ CallComputeBuildModifiers

SpecBudget == InitBudget /\ [][NextBudget]_vars

ZoneDone == op = "compute_energy_zone" /\ pc = "done"

AnchorBudgetDone == op = "compute_anchor_budget" /\ pc = "done"

BuildModsDone == op = "compute_build_modifiers" /\ pc = "done"

\* position of a zone in the order MINIMAL < GROOVE < BUILD < PEAK
ZoneRank(zone) ==
    CASE zone = "MINIMAL" -> 0
      [] zone = "GROOVE"  -> 1
      [] zone = "BUILD"   -> 2
      [] zone = "PEAK"    -> 3

\* C11: compute_energy_zone returns MINIMAL below 0.20 (negative energies
\* included), GROOVE in [0.20, 0.50), BUILD in [0.50, 0.75) and PEAK from
\* 0.75 on (energies above 1 included), and the zone of a larger energy is
\* never a lower zone.
C11_ZoneThresholdsAndMonotone ==
    ZoneDone =>
        /\ e_out[1] = (IF e_in.e1 < 200 THEN "MINIMAL"
                       ELSE IF e_in.e1 < 500 THEN "GROOVE"
                       ELSE IF e_in.e1 < 750 THEN "BUILD"
                       ELSE "PEAK")
        /\ ZoneRank(e_out[1]) <= ZoneRank(e_out[2])

\* an energy below 0 paired with an energy above 1: MINIMAL and PEAK
C11_Witness ==
    /\ ZoneDone
    /\ e_in.e1 < 0 /\ e_in.e2 > 1000
    /\ e_out = <<"MINIMAL", "PEAK">>

\* C12 (as stated): for pattern_length 32 and energies e1 <= e2 in [0, 1]
\* the anchor budget of e1 is at most the anchor budget of e2.
C12_AnchorBudgetMonotone ==
    (AnchorBudgetDone /\ e_in.e1 >= 0 /\ e_in.e2 <= 1000)
        => e_out[1] <= e_out[2]

\* the phase that the thresholds 0.60 and 0.875 give a clamped progress
PhaseOf(progress) ==
    IF Max(0, Min(840, progress)) < 504 THEN "GROOVE"
    ELSE IF Max(0, Min(840, progress)) < 735 THEN "BUILD"
    ELSE "FILL"

-----------------------------------------------------------------------------
(* blend_euclidean_with_weights, one call per run *)

\* largest budget drawn
MaxBlendBudget == 16

\* euclidean_ratio as <<n, 1000>>: both sides of the thresholds 0.01 and
\* 0.99, the genre ratios, and values outside [0, 1]
BlendRatios ==
    {<<n, 1000>> : n \in {-100, 0, 5, 10, 500, 700, 990, 995, 1000, 1200}}

BlendInputs ==
    [ budget : {-1, 0, 2, 5, 8, MaxBlendBudget},
      steps : {16, 32},
      weights : WeightProfiles,
      eligibility : EligibilitySamples,
      euclidean_ratio : BlendRatios,
      seed : Seeds,
      fp_low : BOOLEAN ]

InitBlend ==
    /\ op = "blend_euclidean_with_weights"
    /\ e_in \in BlendInputs
    /\ pc = "call"
    /\ e_out = {}
    /\ g_in = <<>> /\ scores = <<>> /\ selected_mask = {}
    /\ selected_count = 0 /\ last_step = -1 /\ cur_spacing = 0
    /\ p_in = <<>> /\ output = <<>> /\ budget = <<>>
    /\ patterns = <<>> /\ bar = 0

CallBlend ==
    /\ op = "blend_euclidean_with_weights" /\ pc = "call"
    /\ e_out' = blend_euclidean_with_weights(
                    e_in.budget, e_in.steps, e_in.weights, e_in.eligibility,
                    e_in.euclidean_ratio, e_in.seed, e_in.fp_low)
    /\ pc' = "done"
    /\ UNCHANGED <<op, g_in, scores, selected_mask, selected_count, last_step,
                   cur_spacing, e_in, p_in, output, budget, patterns, bar>>

NextBlend == CallBlend

SpecBlend == InitBlend /\ [][NextBlend]_vars

BlendDone == op = "blend_euclidean_with_weights" /\ pc = "done"

\* the path the clamped ratio selects
BlendPath ==
    LET n == Max(0, Min(1000, e_in.euclidean_ratio[1]))
    IN  IF n < 10 THEN "gumbel" ELSE IF n > 990 THEN "euclidean" ELSE "hybrid"

\* C17 (as stated): with all weights positive, 0 <= budget <= 16 and at
\* least `budget` eligible steps below `steps`, the returned mask has
\* exactly `budget` bits, for every euclidean_ratio in [0, 1].
C17_BlendProducesBudget ==
    (/\ BlendDone
     /\ e_in.euclidean_ratio[1] \in 0 .. 1000
     /\ Len(e_in.weights) = 32 /\ \A i \in 1 .. 32 : e_in.weights[i] > 0
     /\ e_in.budget \in 0 .. 16
     /\ Cardinality(e_in.eligibility \cap (0 .. e_in.steps - 1))
            >= e_in.budget)
        => Cardinality(e_out) = e_in.budget

\* C18: on every path the returned mask is a subset of the eligibility
\* mask, and it is empty when the budget is 0.
C18_BlendWithinEligibility ==
    BlendDone =>
        /\ e_out \subseteq e_in.eligibility
        /\ e_in.budget = 0 => e_out = {}

\* C18 witness: a hybrid call whose rotated Euclidean pattern was cut down
\* by the eligibility mask and whose Gumbel part added hits
C18_Witness ==
    /\ BlendDone /\ BlendPath = "hybrid"
    /\ e_out # {}
    /\ e_in.eligibility # 0 .. 31
    /\ Cardinality(e_out) < e_in.budget
    /\ blend_euclidean_unmasked(
           e_in.budget, e_in.steps, e_in.weights, e_in.eligibility,
           e_in.euclidean_ratio, e_in.seed, e_in.fp_low)
         \ e_in.eligibility # {}

\* int(budget * euclidean_ratio) of the hybrid path
BlendEuclideanHits ==
    (e_in.budget * e_in.euclidean_ratio[1]) \div e_in.euclidean_ratio[2]

\* the Euclidean part: the rotated Euclidean pattern cut by the eligibility
BlendEuclideanPart ==
    rotate_pattern(generate_euclidean(BlendEuclideanHits, e_in.steps,
                                      e_in.fp_low),
                   e_in.seed % e_in.steps, e_in.steps)
        \cap e_in.eligibility

\* the Gumbel part: chosen with seed XOR 0xE0C1 among the eligible steps
\* outside the Euclidean part
BlendGumbelPart ==
    select_hits_gumbel(e_in.weights, e_in.eligibility \ BlendEuclideanPart,
                       e_in.budget - BlendEuclideanHits,
                       Xor(e_in.seed, 57537), e_in.steps, 0)

\* C23: on the hybrid path (0.01 <= ratio <= 0.99) the result is the union
\* of the Euclidean part and a Gumbel part of at most
\* budget - int(budget * ratio) steps taken among the eligible steps outside
\* the Euclidean part; the two parts are disjoint.
C23_HybridIsDisjointUnion ==
    (/\ BlendDone /\ e_in.budget > 0
     /\ e_in.euclidean_ratio[1] >= 10 /\ e_in.euclidean_ratio[1] <= 990)
        => /\ e_out = BlendEuclideanPart \cup BlendGumbelPart
           /\ BlendEuclideanPart \cap BlendGumbelPart = {}
           /\ BlendGumbelPart \subseteq e_in.eligibility \ BlendEuclideanPart
           /\ Cardinality(BlendGumbelPart)
                  <= e_in.budget - BlendEuclideanHits
           /\ Cardinality(e_out) =
                  Cardinality(BlendEuclideanPart) + Cardinality(BlendGumbelPart)

\* C23 witness: a hybrid call with both parts non-empty in which the Gumbel
\* stage, had it been offered the Euclidean positions too, would have taken
\* one of them.
C23_Witness ==
    /\ BlendDone /\ e_in.budget > 0
    /\ e_in.euclidean_ratio[1] >= 10 /\ e_in.euclidean_ratio[1] <= 990
    /\ BlendEuclideanPart # {} /\ BlendGumbelPart # {}
    /\ select_hits_gumbel(e_in.weights, e_in.eligibility,
                          e_in.budget - BlendEuclideanHits,
                          Xor(e_in.seed, 57537), e_in.steps, 0)
           \cap BlendEuclideanPart # {}

-----------------------------------------------------------------------------
(* generate_pattern called with arguments outside their ranges *)

\* every clamped parameter below or above its range (energy also inside)
ClampInputs ==
    [ energy : {-200, 250, 1300},
      build : {-100, 1500},
      field_x : {-300, 1200},
      field_y : {-50, 1100},
      punch : {-50, 1200},
      genre : {"TECHNO"},
      balance : {-10, 1010},
      pattern_length : {-5, 100},
      phrase_progress : {-84, 924},
      voice_coupling : {"SHADOW"},
      seed : Seeds,
      fp_low : {FALSE} ]

InitClamp ==
    /\ op = "generate_pattern"
    /\ pc = "call"
    /\ p_in \in ClampInputs
    /\ output = <<>> /\ budget = <<>>
    /\ g_in = <<>> /\ scores = <<>> /\ selected_mask = {}
    /\ selected_count = 0 /\ last_step = -1 /\ cur_spacing = 0
    /\ e_in = <<>> /\ e_out = {}
    /\ patterns = <<>> /\ bar = 0

SpecClamp == InitClamp /\ [][NextPattern]_vars

\* the arguments with every parameter moved into its range: [0, 1] for the
\* continuous ones, [16, 64] for pattern_length
ClampedState(st) ==
    [st EXCEPT !.energy = Max(0, Min(1000, @)),
               !.build = Max(0, Min(1000, @)),
               !.field_x = Max(0, Min(1000, @)),
               !.field_y = Max(0, Min(1000, @)),
               !.punch = Max(0, Min(1000, @)),
               !.balance = Max(0, Min(1000, @)),
               !.phrase_progress = Max(0, Min(840, @)),
               !.pattern_length = Max(16, Min(64, @))]

\* C19: a call with parameters outside their ranges returns (without
\* failing) the output of the call with the parameters clamped.
C19_OutOfRangeSameAsClamped ==
    PatternDone => output = generate_pattern(ClampedState(p_in))

\* a call with every parameter above its range, answered with hits
C19_Witness ==
    /\ PatternDone
    /\ p_in.energy > 1000 /\ p_in.build > 1000 /\ p_in.punch > 1000
    /\ p_in.balance > 1000 /\ p_in.phrase_progress > 840
    /\ p_in.pattern_length > 64
    /\ ClampedState(p_in) # p_in
    /\ output.anchor_hits > 0 /\ output.shimmer_hits > 0
-----------------------------------------------------------------------------
(* compute_shimmer_budget, compute_bar_budget and                          *)
(* compute_shimmer_eligibility, one call (or one pair of calls) per run    *)

Zones == {"MINIMAL", "GROOVE", "BUILD", "PEAK"}

\* energies in thousandths: every twentieth of the grid, and the values next
\* to the thresholds of the zones and of the eligibility functions
CoarseEnergyGrid ==
    {en \in EnergyGrid : en % 50 = 0}
        \cup {199, 201, 301, 351, 499, 501, 601, 749, 751}

BalanceGrid == {-100, 0, 200, 400, 600, 667, 700, 800, 1000, 1200}

FlavorGrid == {-100, 0, 300, 301, 400, 401, 600, 601, 1000}

\* build multipliers as <<numerator, denominator>>: 0.9, 1.0, 1.125, 1.25
\* and the largest one compute_build_modifiers produces, 1.5
BuildMultipliers ==
    {<<900, 1000>>, <<1000, 1000>>, <<1125, 1000>>, <<1250, 1000>>,
     <<1500, 1000>>}

ShimmerBudgetInputs ==
    [ energy : CoarseEnergyGrid,
      balance : BalanceGrid,
      zone : Zones,
      pattern_length : {-4, 0, 2, 8, 12, 16, 24, 32, 64} ]

\* pattern lengths from 0: a negative length makes the length mask's shift
\* raise ValueError, and no BarBudget is returned
BarBudgetInputs ==
    [ energy : {en \in CoarseEnergyGrid : en % 100 = 0},
      balance : {0, 400, 667, 1000},
      zone : Zones,
      pattern_length : {0, 8, 12, 16, 24, 32, 64},
      build_multiplier : BuildMultipliers,
      flavor : {0, 500, 1000} ]

\* two energies e1 <= e2, a flavor and a pattern length
ShimmerEligibilityInputs ==
    {x \in [ e1 : CoarseEnergyGrid, e2 : CoarseEnergyGrid,
             flavor : FlavorGrid, pattern_length : {16, 32} ] : x.e1 <= x.e2}

InitBarBudget ==
    /\ \/ op = "compute_shimmer_budget" /\ e_in \in ShimmerBudgetInputs
       \/ op = "compute_bar_budget" /\ e_in \in BarBudgetInputs
       \/ op = "compute_shimmer_eligibility"
          /\ e_in \in ShimmerEligibilityInputs
    /\ pc = "call"
    /\ e_out = {}
    /\ g_in = <<>> /\ scores = <<>> /\ selected_mask = {}
    /\ selected_count = 0 /\ last_step = -1 /\ cur_spacing = 0
    /\ p_in = <<>> /\ output = <<>> /\ budget = <<>>
    /\ patterns = <<>> /\ bar = 0

\* compute_shimmer_budget, and compute_anchor_budget with the same arguments
CallComputeShimmerBudget ==
    /\ op = "compute_shimmer_budget" /\ pc = "call"
    /\ e_out' = [ shimmer |-> compute_shimmer_budget(e_in.energy, e_in.balance,
                                  e_in.zone, e_in.pattern_length),
                  anchor |-> compute_anchor_budget(e_in.energy, e_in.zone,
                                  e_in.pattern_length) ]
    /\ pc' = "done"
    /\ UNCHANGED <<op, g_in, scores, selected_mask, selected_count, last_step,
                   cur_spacing, e_in, p_in, output, budget, patterns, bar>>

CallComputeBarBudget ==
    /\ op = "compute_bar_budget" /\ pc = "call"
    /\ e_out' = compute_bar_budget(e_in.energy, e_in.balance, e_in.zone,
                                   e_in.pattern_length, e_in.build_multiplier,
                                   e_in.flavor)
    /\ pc' = "done"
    /\ UNCHANGED <<op, g_in, scores, selected_mask, selected_count, last_step,
                   cur_spacing, e_in, p_in, output, budget, patterns, bar>>

\* compute_shimmer_eligibility(e, flavor, compute_energy_zone(e), length)
\* for both energies
CallComputeShimmerEligibility ==
    /\ op = "compute_shimmer_eligibility" /\ pc = "call"
    /\ e_out' = <<compute_shimmer_eligibility(e_in.e1, e_in.flavor,
                      compute_energy_zone(e_in.e1), e_in.pattern_length),
                  compute_shimmer_eligibility(e_in.e2, e_in.flavor,
                      compute_energy_zone(e_in.e2), e_in.pattern_length)>>
    /\ pc' = "done"
    /\ UNCHANGED <<op, g_in, scores, selected_mask, selected_count, last_step,
                   cur_spacing, e_in, p_in, output, budget, patterns, bar>>

NextBarBudget ==
    CallComputeShimmerBudget \/ CallComputeBarBudget
        \/ CallComputeShimmerEligibility

SpecBarBudget == InitBarBudget /\ [][NextBarBudget]_vars

ShimmerBudgetDone == op = "compute_shimmer_budget" /\ pc = "done"

BarBudgetDone == op = "compute_bar_budget" /\ pc = "done"

ShimmerEligibilityDone == op = "compute_shimmer_eligibility" /\ pc = "done"

\* C24: in the MINIMAL and GROOVE zones compute_shimmer_budget is at most
\* compute_anchor_budget for every energy, balance and pattern length, and
\* the shimmer_hits of compute_bar_budget are at most its anchor_hits, the
\* build multiplier applied.
C24_ShimmerAtMostAnchorInLowZones ==
    /\ (ShimmerBudgetDone /\ e_in.zone \in {"MINIMAL", "GROOVE"})
           => e_out.shimmer <= e_out.anchor
    /\ (BarBudgetDone /\ e_in.zone \in {"MINIMAL", "GROOVE"})
           => e_out.shimmer_hits <= e_out.anchor_hits

\* C24 witness: a GROOVE call whose balance asks for more than the anchor
\* budget (balance * 1.5 > 1) and gets exactly the anchor budget of several
\* hits.
C24_Witness ==
    /\ ShimmerBudgetDone /\ e_in.zone = "GROOVE"
    /\ e_in.balance > 667 /\ e_in.balance <= 1000
    /\ e_out.anchor >= 3
    /\ e_out.shimmer = e_out.anchor
    /\ TruncDiv(2 * e_out.anchor * 3 * e_in.balance + 2000, 4000)
           > e_out.anchor
\* the BarBudget of the same call with build_multiplier = 1.0
BarBudgetUnscaled ==
    compute_bar_budget(e_in.energy, e_in.balance, e_in.zone,
                       e_in.pattern_length, <<1000, 1000>>, e_in.flavor)

\* C25: every BarBudget returned has its three eligibility masks within the
\* low min(pattern_length, 32) bits, anchor_hits and shimmer_hits at most
\* min(pattern_length, 32) * 2 // 3, aux_hits at most min(pattern_length, 32),
\* and with a build multiplier above 1.0 each hit budget is at least the one
\* obtained with multiplier 1.0.
C25_BarBudgetWithinLength ==
    BarBudgetDone =>
        /\ \A m \in {e_out.anchor_eligibility, e_out.shimmer_eligibility,
                     e_out.aux_eligibility} :
              m \subseteq 0 .. (Min(e_in.pattern_length, 32) - 1)
        /\ e_out.anchor_hits <= (Min(e_in.pattern_length, 32) * 2) \div 3
        /\ e_out.shimmer_hits <= (Min(e_in.pattern_length, 32) * 2) \div 3
        /\ e_out.aux_hits <= Min(e_in.pattern_length, 32)
        /\ e_in.build_multiplier[1] > e_in.build_multiplier[2] =>
              /\ e_out.anchor_hits >= BarBudgetUnscaled.anchor_hits
              /\ e_out.shimmer_hits >= BarBudgetUnscaled.shimmer_hits
              /\ e_out.aux_hits >= BarBudgetUnscaled.aux_hits

\* C25 witness: a 24-step PEAK bar whose masks are cut off at step 24 and
\* whose build multiplier raised the anchor budget.
C25_Witness ==
    /\ BarBudgetDone
    /\ e_in.pattern_length = 24 /\ e_in.zone = "PEAK"
    /\ e_out.anchor_eligibility = 0 .. 23
    /\ e_in.build_multiplier[1] > e_in.build_multiplier[2]
    /\ e_out.anchor_hits > BarBudgetUnscaled.anchor_hits
    /\ e_out.aux_hits > BarBudgetUnscaled.aux_hits
\* C26 (as stated): for a fixed flavor and pattern length and energies
\* e1 <= e2, each with its own zone, compute_shimmer_eligibility at e1 is a
\* subset of compute_shimmer_eligibility at e2.
C26_ShimmerEligibilityExpands ==
    ShimmerEligibilityDone => e_out[1] \subseteq e_out[2]
-----------------------------------------------------------------------------
(* generate_pattern over every genre and zone, with the field position     *)
(* that opens the odd steps to the anchor                                  *)

SpacingInputs ==
    [ energy : {100, 400, 600, 900},
      build : {0},
      field_x : {0, 500, 1000},
      field_y : {0},
      punch : {500},
      genre : {"TECHNO", "TRIBAL", "IDM"},
      balance : {500},
      pattern_length : {16, 32},
      phrase_progress : {0},
      voice_coupling : {"INDEPENDENT"},
      seed : Seeds,
      fp_low : {FALSE} ]

InitSpacing ==
    /\ op = "generate_pattern"
    /\ pc = "call"
    /\ p_in \in SpacingInputs
    /\ output = <<>> /\ budget = <<>>
    /\ g_in = <<>> /\ scores = <<>> /\ selected_mask = {}
    /\ selected_count = 0 /\ last_step = -1 /\ cur_spacing = 0
    /\ e_in = <<>> /\ e_out = {}
    /\ patterns = <<>> /\ bar = 0

SpecSpacing == InitSpacing /\ [][NextPattern]_vars

\* the hybrid selection of a voice with no spacing in its Gumbel stage: the
\* rotated Euclidean pattern within the eligibility, and the remaining hits
\* chosen among the other eligible steps
HybridSpacingFree(hits, steps, weights, eligibility, ratio, seed, fp_low) ==
    Only({ euclidean_pattern
             \cup select_hits_gumbel(weights, eligibility \ euclidean_pattern,
                                     hits - (hits * ratio[1]) \div ratio[2],
                                     Xor(seed, 57537), steps, 0)
        : euclidean_pattern \in {rotate_pattern(generate_euclidean((hits * ratio[1]) \div ratio[2], steps, fp_low), seed % steps, steps) \cap eligibility} })

\* the spacing of the zone: 4 in MINIMAL, 2 in GROOVE, 1 in BUILD, 0 in PEAK
ZoneSpacing(zone) ==
    CASE zone = "MINIMAL" -> 4
      [] zone = "GROOVE"  -> 2
      [] zone = "BUILD"   -> 1
      [] zone = "PEAK"    -> 0

\* the genre Euclidean ratio of the call, in units of 1e-7
PatternRatio ==
    get_genre_euclidean_ratio(p_in.genre, Max(0, Min(1000, p_in.field_x)),
                              output.energy_zone)

\* the blended weight arrays of the call
PatternWeights ==
    blend_archetypes(p_in.genre, Max(0, Min(1000, p_in.field_x)),
                     Max(0, Min(1000, p_in.field_y)))

-----------------------------------------------------------------------------
(* generate_pattern under each voice coupling mode *)

VoiceCouplings == {"INDEPENDENT", "INTERLOCK", "SHADOW"}

CouplingInputs ==
    [ energy : {250, 900},
      build : {0, 1000},
      field_x : {500},
      field_y : {0},
      punch : {500},
      genre : {"TECHNO", "IDM"},
      balance : {500},
      pattern_length : {16, 32},
      phrase_progress : {800},
      voice_coupling : VoiceCouplings,
      seed : Seeds,
      fp_low : {FALSE} ]

InitCoupling ==
    /\ op = "generate_pattern"
    /\ pc = "call"
    /\ p_in \in CouplingInputs
    /\ output = <<>> /\ budget = <<>>
    /\ g_in = <<>> /\ scores = <<>> /\ selected_mask = {}
    /\ selected_count = 0 /\ last_step = -1 /\ cur_spacing = 0
    /\ e_in = <<>> /\ e_out = {}
    /\ patterns = <<>> /\ bar = 0

SpecCoupling == InitCoupling /\ [][NextPattern]_vars

\* pipeline.py lines 227-246: the mask of the shimmer selection stage
ShimmerStageMask ==
    IF PatternRatio > 100000
    THEN blend_euclidean_with_weights(
             budget.shimmer_hits, output.pattern_length,
             PatternWeights.shimmer_weights, budget.shimmer_eligibility,
             <<PatternRatio, 20000000>>, Xor(p_in.seed, 74565), p_in.fp_low)
    ELSE select_hits_gumbel(
             PatternWeights.shimmer_weights, budget.shimmer_eligibility,
             budget.shimmer_hits, Xor(p_in.seed, 74565), output.pattern_length,
             get_min_spacing_for_zone(output.energy_zone))

\* C30: the call with any other voice_coupling and otherwise the same
\* arguments returns the same anchor_mask, aux_mask, anchor and aux
\* velocities, anchor_hits, aux_hits, energy_zone and pattern_length; and
\* with INDEPENDENT the shimmer mask is the mask of the shimmer selection
\* stage.
C30_CouplingTouchesOnlyShimmer ==
    PatternDone =>
        /\ \A c \in VoiceCouplings :
              \A other \in {generate_pattern([p_in EXCEPT !.voice_coupling = c])} :
                  /\ other.anchor_mask = output.anchor_mask
                  /\ other.aux_mask = output.aux_mask
                  /\ other.anchor_velocities = output.anchor_velocities
                  /\ other.aux_velocities = output.aux_velocities
                  /\ other.anchor_hits = output.anchor_hits
                  /\ other.aux_hits = output.aux_hits
                  /\ other.energy_zone = output.energy_zone
                  /\ other.pattern_length = output.pattern_length
        /\ p_in.voice_coupling = "INDEPENDENT" =>
              output.shimmer_mask = ShimmerStageMask

\* C30 witness: an INTERLOCK call whose shimmer mask lost hits that the
\* selection stage had put on anchor steps, while the INDEPENDENT call
\* keeps them.
C30_Witness ==
    /\ PatternDone /\ p_in.voice_coupling = "INTERLOCK"
    /\ output.anchor_hits > 0 /\ output.aux_hits > 0
    /\ ShimmerStageMask \cap output.anchor_mask # {}
    /\ output.shimmer_mask # ShimmerStageMask
    /\ generate_pattern([p_in EXCEPT !.voice_coupling = "INDEPENDENT"]).shimmer_mask
           = ShimmerStageMask

====
